---- MODULE Spec2Model ----
\* KSCrash: the signal detector (KSCrashMonitor_Signal.c) and the
\* installation controller with its write callback (KSCrashC.c).
\*
\* The monitor registry (kscm_), the report store (kscrs_), the report
\* writer (kscrashreport_) and the lifecycle-state tracker (kscrashstate_)
\* are not part of the two source files; they are modelled from the
\* specification and observed through call logs.
EXTENDS Integers, Sequences, FiniteSets, TLC

\* ------------------------------------------------------------------ bounds

\* How many entries of the fatal-signal list are modelled.
NumFatalSignals == 2
\* How many times ksid_generate may be called (detector sessions).
MaxSessions == 2
\* How many lifecycle notifications the host sends.
MaxNotifications == 2
\* How many captures detectors other than the signal detector report.
MaxOtherCaptures == 1

\* ------------------------------------------------------------ signal table

\* kssignal_fatalSignals(): SIGABRT, SIGBUS, SIGFPE, SIGILL, SIGPIPE,
\* SIGSEGV, SIGSYS, SIGTRAP, by their numbers.
AllFatalSignals == <<6, 10, 8, 4, 13, 11, 12, 5>>

fatalSignalsCount == NumFatalSignals

fatalSignals(i) == AllFatalSignals[i + 1]

Indexes == 0 .. (fatalSignalsCount - 1)

SigNums == {fatalSignals(i) : i \in Indexes}

\* The value addContextualInfoToEvent writes: SIGABRT.
SIGABRT == AllFatalSignals[1]

\* sa_sigaction values.  "NULL" is the zeroed struct sigaction (SIG_DFL).
NULL == "NULL"
HANDLE_SIGNAL == "handleSignal"
APP_HANDLER == "appHandler"
THIRD_PARTY == "thirdParty"
Handlers == {NULL, HANDLE_SIGNAL, APP_HANDLER, THIRD_PARTY}

\* memset(g_previousSignalHandlers, 0, ...)
ZeroHandlers == [i \in Indexes |-> NULL]

\* What the OS hands to a handler with the signal number: si_code, si_addr
\* and the user context.
Deliveries ==
    {[si_code |-> 1, si_addr |-> 16, userContext |-> "uc1"],
     [si_code |-> 2, si_addr |-> 32, userContext |-> "uc2"]}

\* --------------------------------------------------------------- variables

VARIABLES
    \* KSCrashMonitor_Signal.c globals
    g_isEnabled,
    g_monitorContext,
    g_stackCursor,
    g_signalStack,
    g_previousSignalHandlers,
    g_eventID,
    g_handleSignalHasBeenCalled,
    \* the operating system and the process
    osHandlers,          \* the kernel's sigaction table, by signal number
    proc,                \* "running", "exited" (_Exit), "killed", "crashed"
    exitCode,            \* the argument of _Exit, 0 when not exited
    frames,              \* the running handleSignal activations, innermost last
    threadsSuspended,    \* other threads stopped by ksmc_suspendEnvironment
    idsGenerated,        \* how many identifiers ksid_generate has produced
    \* KSCrashC.c globals
    g_installed,
    g_monitoring,
    g_lastCrashReportFilePath,
    g_reportWrittenCallback,
    g_lastApplicationState,
    \* monitor registry
    g_onExceptionEvent,
    userMonitorEnabled,
    g_handlingFatalException,
    g_crashedDuringExceptionHandling,
    \* report store and report writer
    nextReportID,
    reportStore,         \* ids of the reports the store holds
    g_maxReportCount,    \* the store's bound on the number of reports
    \* the uncaught-exception handler chain of the process
    uncaughtExceptionHandler,
    \* the handleSignal activations of each thread, innermost last, when
    \* several threads trap signals
    threadFrames,
    \* where each thread that called kscrash_install is in it
    installThreads,
    \* observation of calls (history)
    obs

vars == <<g_isEnabled, g_monitorContext, g_stackCursor, g_signalStack,
          g_previousSignalHandlers, g_eventID, g_handleSignalHasBeenCalled,
          osHandlers, proc, exitCode, frames, threadsSuspended, idsGenerated,
          g_installed, g_monitoring, g_lastCrashReportFilePath,
          g_reportWrittenCallback, g_lastApplicationState,
          g_onExceptionEvent, userMonitorEnabled, g_handlingFatalException,
          g_crashedDuringExceptionHandling, nextReportID, reportStore,
          g_maxReportCount, uncaughtExceptionHandler, threadFrames,
          installThreads, obs>>

signalVars == <<g_isEnabled, g_signalStack, g_previousSignalHandlers,
                g_eventID, osHandlers, idsGenerated>>

captureVars == <<g_monitorContext, g_stackCursor, g_handleSignalHasBeenCalled,
                 frames, threadsSuspended, exitCode>>

controllerVars == <<g_installed, g_monitoring, g_lastCrashReportFilePath,
                    g_reportWrittenCallback, g_lastApplicationState>>

registryVars == <<g_onExceptionEvent, userMonitorEnabled,
                  g_handlingFatalException, g_crashedDuringExceptionHandling>>

storeVars == <<reportStore, g_maxReportCount>>

\* The threads of the process that may trap a fatal signal.
NumThreads == 2

Threads == 1 .. NumThreads

\* The two threads of the host that call kscrash_install.
Installers == {"first", "second"}

\* The report store's bound before kscrash_setMaxReportCount is called.
DefaultMaxReportCount == 5

\* ----------------------------------------------- installSignalHandler

\* Line 209: the handler read back for the signal is this detector's own.
IsAlreadySet(previousEntry, queried) ==
    previousEntry # NULL /\ queried = HANDLE_SIGNAL

\* Lines 229-232: for(i--; i >= 0; i--) sigaction(fatalSignals[i], &previous[i], NULL)
RECURSIVE Rollback(_, _, _)
Rollback(i, os, prev) ==
    IF i >= 0
    THEN Rollback(i - 1, [os EXCEPT ![fatalSignals(i)] = prev[i]], prev)
    ELSE os

\* Lines 199-235.  failSet: the indexes whose installing sigaction call
\* fails; queryFail: the indexes whose reading sigaction call fails (the
\* local previousSignalHandler then stays zeroed).
RECURSIVE InstallLoop(_, _, _, _, _)
InstallLoop(i, os, prev, failSet, queryFail) ==
    IF ~(i < fatalSignalsCount)
    THEN [ok |-> TRUE, os |-> os, h |-> prev]
    ELSE LET sig == fatalSignals(i)
             queried == IF i \in queryFail THEN NULL ELSE os[sig]
         IN  IF IsAlreadySet(prev[i], queried)
             THEN InstallLoop(i + 1, os, prev, failSet, queryFail)
             ELSE IF i \in failSet
             THEN [ok |-> FALSE, os |-> Rollback(i - 1, os, prev), h |-> prev]
             ELSE InstallLoop(i + 1,
                              [os EXCEPT ![sig] = HANDLE_SIGNAL],
                              [prev EXCEPT ![i] = os[sig]],
                              failSet, queryFail)

\* Lines 158-245.  altFail: sigaltstack fails.
installSignalHandler(os, prev, stack, altFail, failSet, queryFail) ==
    LET stack1 == IF stack = "zero" THEN "allocated" ELSE stack
    IN  IF altFail
        THEN [ok |-> FALSE, os |-> os, prev |-> prev, stack |-> stack1]
        ELSE LET table == IF prev.alloc THEN prev.h ELSE ZeroHandlers
                 r == InstallLoop(0, os, table, failSet, queryFail)
             IN  [ok |-> r.ok, os |-> r.os,
                  prev |-> [alloc |-> TRUE, h |-> r.h], stack |-> stack1]

\* Lines 255-259: sigaction(fatalSignals[i], &g_previousSignalHandlers[i], NULL)
RECURSIVE RestoreLoop(_, _, _)
RestoreLoop(i, os, prev) ==
    IF i < fatalSignalsCount
    THEN RestoreLoop(i + 1, [os EXCEPT ![fatalSignals(i)] = prev[i]], prev)
    ELSE os

\* Lines 247-268.  g_previousSignalHandlers is still the null pointer when no
\* call of installSignalHandler got past sigaltstack: the loop and the memset
\* then go through a null pointer, which is undefined behaviour.  ub chooses
\* what the build makes of it: "fault" (the process dies of the access) or
\* "ignored" (the accesses have no effect).
uninstallSignalHandler(os, prev, ub) ==
    IF prev.alloc
    THEN [os |-> RestoreLoop(0, os, prev.h),
          prev |-> [alloc |-> TRUE, h |-> ZeroHandlers],
          stack |-> "zero", fault |-> FALSE]
    ELSE [os |-> os, prev |-> prev, stack |-> "zero", fault |-> (ub = "fault")]

\* ----------------------------------------------------------- setEnabled

\* setEnabled without its test: every call acts.
ShouldChange_Always(isEnabled, current) == TRUE

\* Line 273: if(isEnabled != g_isEnabled)
ShouldChange(isEnabled, current) == isEnabled # current

\* Lines 270-290.  The result holds the new value of every global setEnabled
\* can write, "generated" (ksid_generate was called) and "ok" (the value
\* installSignalHandler returned, TRUE when it was not called).
setEnabled(isEnabled, altFail, failSet, queryFail, ub) ==
    IF ~ShouldChange(isEnabled, g_isEnabled)
    THEN [enabled |-> g_isEnabled, eventID |-> g_eventID, generated |-> FALSE,
          os |-> osHandlers, prev |-> g_previousSignalHandlers,
          stack |-> g_signalStack, ok |-> TRUE, fault |-> FALSE]
    ELSE IF isEnabled
    THEN LET r == installSignalHandler(osHandlers, g_previousSignalHandlers,
                                       g_signalStack, altFail, failSet, queryFail)
         IN  [enabled |-> isEnabled, eventID |-> idsGenerated + 1,
              generated |-> TRUE, os |-> r.os, prev |-> r.prev,
              stack |-> r.stack, ok |-> r.ok, fault |-> FALSE]
    ELSE LET u == uninstallSignalHandler(osHandlers, g_previousSignalHandlers, ub)
         IN  [enabled |-> isEnabled, eventID |-> g_eventID, generated |-> FALSE,
              os |-> u.os, prev |-> u.prev, stack |-> u.stack, ok |-> TRUE,
              fault |-> u.fault]

\* Lines 292-295.
isEnabled == g_isEnabled

\* The globals of the signal detector after a call of setEnabled with result r.
ApplySetEnabled(r) ==
    /\ g_isEnabled' = r.enabled
    /\ g_eventID' = r.eventID
    /\ idsGenerated' = IF r.generated THEN idsGenerated + 1 ELSE idsGenerated
    /\ osHandlers' = r.os
    /\ g_previousSignalHandlers' = r.prev
    /\ g_signalStack' = r.stack
    /\ proc' = IF r.fault THEN "crashed" ELSE proc

\* What the OS answers to one call of installSignalHandler: sigaltstack fails
\* (altFail), or the first installing sigaction call that fails is the one
\* of an index in failSet, and the reading sigaction call fails for the
\* indexes in queryFail.
NoFailure == [altFail |-> FALSE, failSet |-> {}, queryFail |-> {}]

AtMostOne == {{}} \cup {{i} : i \in Indexes}

InstallOutcomes ==
    {[altFail |-> TRUE, failSet |-> {}, queryFail |-> {}]}
      \cup {[altFail |-> FALSE, failSet |-> f, queryFail |-> q] :
                f \in AtMostOne, q \in AtMostOne}

\* The outcomes in which every reading sigaction call succeeds.
BasicOutcomes == {o \in InstallOutcomes : o.queryFail = {}}

\* The outcomes in which every sigaction call succeeds.
StackOutcomes == {o \in BasicOutcomes : o.failSet = {}}

UBOutcomes == {"fault", "ignored"}

\* ksid_generate is called at most MaxSessions times.
CanGenerate(isOn) ==
    (isOn /\ ShouldChange(isOn, g_isEnabled)) => idsGenerated < MaxSessions

\* No handler is running and the process is alive: the host may call the API.
Idle == proc = "running" /\ frames = <<>>

\* ------------------------------------------------------- context records

\* memset(crashContext, 0, sizeof(*crashContext))
ZeroContext ==
    [crashType |-> "None", eventID |-> NULL, offendingMachineContext |-> NULL,
     registersAreValid |-> FALSE, faultAddress |-> 0, userContext |-> NULL,
     signum |-> 0, sigcode |-> 0, stackCursor |-> NULL,
     crashedDuringCrashHandling |-> FALSE,
     currentSnapshotUserReported |-> FALSE]

\* static KSStackCursor g_stackCursor, zero-initialised.
ZeroCursor == [maxDepth |-> "0", machineContext |-> NULL]

MonitorTypes == {"Signal", "User"}

\* KSCrashMonitorTypeProductionSafeMinimal, the initial value of g_monitoring.
KSCrashMonitorTypeProductionSafeMinimal == {"Signal", "User"}

KSCrashMonitorTypeNone == {}

\* The calls kscrash_install makes once it is past its test of g_installed.
SetupSteps == {"ksfu_makePath(Reports)", "kscrs_initialize",
               "ksfu_makePath(Data)", "kscrashstate_initialize",
               "ksccd_init", "kscm_setEventCallback", "kscrash_setMonitoring",
               "notifyOfBeforeInstallationState"}

NoRead == [called |-> FALSE, reportID |-> 0, stored |-> FALSE,
           ioOK |-> FALSE, fixOK |-> FALSE, storeRead |-> FALSE,
           fixup |-> FALSE, result |-> NULL]

NoMonitoringCall == [called |-> FALSE, installed |-> FALSE, monitors |-> {},
                     ret |-> {}]

NoFailedCall == [failed |-> FALSE, before |-> [s \in SigNums |-> NULL]]

\* The history of a call of installSignalHandler that returned ok, made with
\* the OS handlers os in place.
NoteInstallCall(ok, os) ==
    IF ok THEN NoFailedCall ELSE [failed |-> TRUE, before |-> os]

ObsInit ==
    [last |-> "other",        \* the last call: "enableFailed", a setEnabled(true)
                              \* whose installSignalHandler returned false;
                              \* "disabled", a setEnabled(false) that went
                              \* from enabled to disabled; "other"
     entries |-> 0,           \* entries of handleSignal
     hasPreEnable |-> FALSE,  \* the detector went from disabled to enabled
     preEnable |-> [s \in SigNums |-> NULL],  \* OS handlers before that,
                              \* kept until the call after the disable
     handed |-> <<>>,         \* what handleSignal hands to
                              \* kscm_handleException, with what the OS
                              \* delivered to that handleSignal
     events |-> <<>>,         \* the events onCrash was called with
     written |-> <<>>,        \* reports written: kind and path
     callbacks |-> <<>>,      \* ids given to the report-written callback
     chained |-> <<>>,        \* calls of a saved previous handler
     raised |-> <<>>,         \* signals re-raised by handleSignal
     setup |-> [s \in SetupSteps |-> 0],  \* calls made by kscrash_install
     installCalls |-> <<>>,   \* the same calls, in the order made
     installRets |-> <<>>,    \* results of the latest consecutive installs
     received |-> <<>>,       \* lifecycle notifications the host sent
     receivedAtInstall |-> 0, \* how many of them before install ran
     forwarded |-> <<>>,      \* notifications given to the state tracker
     otherCaptures |-> 0,     \* captures by detectors other than Signal
     reInstalls |-> 0,        \* calls of kscrash_re_install
     maxPassed |-> DefaultMaxReportCount,  \* the last argument of
                              \* kscrash_setMaxReportCount, if any
     writes |-> 0,            \* reports written since that call
     read |-> NoRead,         \* the call just made, if it was a
                              \* kscrash_readReport
     failedCall |-> NoFailedCall,  \* the call just made, if it was an
                              \* installSignalHandler that returned false
     captures |-> 0,          \* executions of handleSignal's capture body
     earlyForward |-> FALSE,  \* a notification was given to the state
                              \* tracker before install's setup was made
     earlyActivation |-> FALSE,  \* kscrash_setMonitoring enabled a monitor
                              \* before install's setup was made
     monitoring |-> NoMonitoringCall]  \* the call just made, if it was a
                              \* kscrash_setMonitoring, kept over the
                              \* installation that follows it

\* The handlers the host application may have installed before KSCrash.
Init ==
    /\ g_isEnabled = FALSE
    /\ g_monitorContext = ZeroContext
    /\ g_stackCursor = ZeroCursor
    /\ g_signalStack = "zero"
    /\ g_previousSignalHandlers = [alloc |-> FALSE, h |-> ZeroHandlers]
    /\ g_eventID = 0
    /\ g_handleSignalHasBeenCalled = FALSE
    /\ osHandlers \in [SigNums -> {NULL, APP_HANDLER}]
    /\ proc = "running"
    /\ exitCode = 0
    /\ frames = <<>>
    /\ threadsSuspended = FALSE
    /\ idsGenerated = 0
    /\ g_installed = FALSE
    /\ g_monitoring = KSCrashMonitorTypeProductionSafeMinimal
    /\ g_lastCrashReportFilePath = 0
    /\ g_reportWrittenCallback = NULL
    /\ g_lastApplicationState = "KSApplicationStateNone"
    /\ g_onExceptionEvent = NULL
    /\ userMonitorEnabled = FALSE
    /\ g_handlingFatalException = FALSE
    /\ g_crashedDuringExceptionHandling = FALSE
    /\ nextReportID = 1
    /\ reportStore = {}
    /\ g_maxReportCount = DefaultMaxReportCount
    /\ uncaughtExceptionHandler = NULL
    /\ threadFrames = [t \in Threads |-> <<>>]
    /\ installThreads = [t \in Installers |-> "out"]
    /\ obs = ObsInit

\* The history after a call of setEnabled with result r: the OS handlers in
\* place when the detector goes from disabled to enabled, and how the call
\* ended.
NoteSetEnabled(o, r) ==
    LET wasOn == g_isEnabled
        keep == r.enabled \/ wasOn
    IN  [o EXCEPT !.last = IF r.generated /\ ~r.ok THEN "enableFailed"
                           ELSE IF wasOn /\ ~r.enabled /\ ~r.fault
                           THEN "disabled" ELSE "other",
                  !.installRets = <<>>,
                  !.read = NoRead,
                  !.monitoring = NoMonitoringCall,
                  !.failedCall = IF r.generated
                                 THEN NoteInstallCall(r.ok, osHandlers)
                                 ELSE NoFailedCall,
                  !.hasPreEnable = IF r.generated THEN TRUE ELSE @ /\ keep,
                  !.preEnable = IF r.generated THEN osHandlers
                                ELSE IF o.hasPreEnable /\ keep THEN @
                                ELSE [s \in SigNums |-> NULL]]

\* The history after any other call.
NoteOther(o) ==
    [o EXCEPT !.last = "other",
              !.installRets = <<>>,
              !.read = NoRead,
              !.monitoring = NoMonitoringCall,
              !.failedCall = NoFailedCall,
              !.hasPreEnable = @ /\ g_isEnabled,
              !.preEnable = IF o.hasPreEnable /\ g_isEnabled THEN @
                            ELSE [s \in SigNums |-> NULL]]

\* The monitor API's setEnabled, as the registry or a host calls it through
\* kscm_signal_getAPI().
SetEnabled(isOn, env, ub) ==
    /\ Idle
    /\ CanGenerate(isOn)
    /\ LET r == setEnabled(isOn, env.altFail, env.failSet, env.queryFail, ub)
       IN  /\ ApplySetEnabled(r)
           /\ obs' = NoteSetEnabled(obs, r)
    /\ UNCHANGED <<captureVars, controllerVars, registryVars, nextReportID>>
    /\ UNCHANGED <<storeVars, uncaughtExceptionHandler, threadFrames,
                   installThreads>>

\* Lines 307-314.
emb_reInstallSignalHandlers(env) ==
    /\ Idle
    /\ LET r == installSignalHandler(osHandlers, g_previousSignalHandlers,
                                     g_signalStack, env.altFail, env.failSet,
                                     env.queryFail)
       IN  /\ osHandlers' = r.os
           /\ g_previousSignalHandlers' = r.prev
           /\ g_signalStack' = r.stack
           /\ obs' = [NoteOther(obs) EXCEPT
                         !.failedCall = NoteInstallCall(r.ok, osHandlers)]
    /\ UNCHANGED <<g_isEnabled, g_eventID, idsGenerated, proc, captureVars,
                   controllerVars, registryVars, nextReportID>>
    /\ UNCHANGED <<storeVars, uncaughtExceptionHandler, threadFrames,
                   installThreads>>

\* Another component of the process installs its own handler for a fatal
\* signal on top of whatever is installed.
ThirdPartyInstall(i) ==
    /\ Idle
    /\ osHandlers[fatalSignals(i)] # THIRD_PARTY
    /\ osHandlers' = [osHandlers EXCEPT ![fatalSignals(i)] = THIRD_PARTY]
    /\ obs' = NoteOther(obs)
    /\ UNCHANGED <<g_isEnabled, g_eventID, idsGenerated, proc, g_signalStack,
                   g_previousSignalHandlers, captureVars, controllerVars,
                   registryVars, nextReportID>>
    /\ UNCHANGED <<storeVars, uncaughtExceptionHandler, threadFrames,
                   installThreads>>

\* --------------------------------------------------- monitor registry

\* kscm_notifyFatalExceptionCaptured: a capture that starts while another
\* one is in progress is a re-entrant one.
NotifyFatalExceptionCaptured ==
    /\ g_crashedDuringExceptionHandling' =
           (g_crashedDuringExceptionHandling \/ g_handlingFatalException)
    /\ g_handlingFatalException' = TRUE

\* Lines 297-305: the signal detector's contextual-info hook.
addContextualInfoToEvent(eventContext) ==
    IF eventContext.crashType \notin {"Signal", "MachException"}
    THEN [eventContext EXCEPT !.signum = SIGABRT]
    ELSE eventContext

\* kscm_handleException up to the call of the write callback: the re-entrant
\* flag, then the hooks of the other enabled monitors.
HandleExceptionContext(context, reentrant, own) ==
    LET c == [context EXCEPT !.crashedDuringCrashHandling = reentrant]
    IN  IF g_isEnabled /\ ~own THEN addContextualInfoToEvent(c) ELSE c

\* kscm_getActiveMonitors, from the monitors' isEnabled.
ActiveMonitors(signalOn, userOn) ==
    {m \in MonitorTypes : (m = "Signal" /\ signalOn) \/ (m = "User" /\ userOn)}

\* ------------------------------------------------------------- onCrash

\* onCrash without its test of the re-entrant flag.
IsRecrash_Ignored(monitorContext) == FALSE

\* Line 138: if(monitorContext->crashedDuringCrashHandling)
IsRecrash(monitorContext) == monitorContext.crashedDuringCrashHandling

\* kscrs_getNextCrashReport writes the path of the report it allocates; a
\* path is modelled by the id it is made from, 0 being the empty string.
PathOfReport(reportID) == reportID

\* onCrash without the copy into g_lastCrashReportFilePath.
strncpy_NotStored(path) == 0

\* Line 146: strncpy between two buffers of KSFU_MAX_PATH_LENGTH.
strncpy(path) == path

\* What is recorded of an event onCrash is called with.
EventOf(monitorContext) ==
    [crashType |-> monitorContext.crashType,
     crashedDuringCrashHandling |-> monitorContext.crashedDuringCrashHandling]

\* Lines 149-152: the report-written callback, when one is set.
\* The store after eviction: the lowest ids go until the bound holds.
RECURSIVE Evict(_, _)
Evict(ids, max) ==
    IF ids = {} \/ Cardinality(ids) <= max
    THEN ids
    ELSE Evict(ids \ {CHOOSE m \in ids : \A n \in ids : m <= n}, max)

\* The store after a successful write of the report id.
StoreWrite(ids, id, max) == Evict(ids \cup {id}, max)

\* The store after a recrash report was written at path: the report at the
\* last allocated path, if one was allocated.
StoreRecrash(ids, path, max) ==
    IF path = 0 THEN ids ELSE StoreWrite(ids, path, max)

NotifyReportWritten(o, reportID) ==
    IF g_reportWrittenCallback # NULL
    THEN [o EXCEPT !.callbacks = Append(@, reportID)]
    ELSE o

\* --------------------------------------------------------- handleSignal

\* handleSignal without its guard.
HasBeenCalled_Never == FALSE

\* Line 90: if (g_handleSignalHasBeenCalled)
HasBeenCalled == g_handleSignalHasBeenCalled

\* handleSignal without the store to its latch.
LatchAfterEntry_Unset == FALSE

\* Line 97: g_handleSignalHasBeenCalled = true
LatchAfterEntry == TRUE

\* A bound on the entries of handleSignal; the code itself never gets past
\* the second.
MaxEntries == 3

NewFrame(sigNum, code, addr, uc) ==
    [sigNum |-> sigNum, si_signo |-> sigNum, si_code |-> code, si_addr |-> addr,
     userContext |-> uc, pc |-> "trapped", machineContext |-> NULL,
     reportID |-> 0]

\* Lines 87-99: handleSignal is entered on top of the activations base.
Enter(base, o, sigNum, code, addr, uc) ==
    /\ obs' = [o EXCEPT !.entries = @ + 1]
    /\ IF HasBeenCalled
       THEN /\ proc' = "exited"
            /\ exitCode' = sigNum
            /\ frames' = base
            /\ UNCHANGED g_handleSignalHasBeenCalled
       ELSE /\ g_handleSignalHasBeenCalled' = LatchAfterEntry
            /\ frames' = Append(base, NewFrame(sigNum, code, addr, uc))
            /\ UNCHANGED <<proc, exitCode>>

\* The OS delivers a fatal signal: to handleSignal when it is the installed
\* handler; the default disposition and the handlers of other components end
\* the process.
Deliver(base, o, sigNum, code, addr, uc) ==
    IF osHandlers[sigNum] = HANDLE_SIGNAL
    THEN Enter(base, o, sigNum, code, addr, uc)
    ELSE /\ proc' = "killed"
         /\ frames' = base
         /\ obs' = o
         /\ UNCHANGED <<exitCode, g_handleSignalHasBeenCalled>>

Top == frames[Len(frames)]

SetTop(f) == [frames EXCEPT ![Len(frames)] = f]

Blocked == {frames[k].sigNum : k \in 1 .. Len(frames)}

\* A fault raises a fatal signal, in the application or inside a running
\* handler.  A signal whose handler is running is blocked: the kernel ends
\* the process.
Fault(sigNum, code, addr, uc) ==
    /\ proc = "running"
    /\ obs.entries < MaxEntries
    /\ LET o == NoteOther(obs)
       IN  IF sigNum \in Blocked
           THEN /\ proc' = "killed"
                /\ obs' = o
                /\ UNCHANGED <<frames, exitCode, g_handleSignalHasBeenCalled>>
           ELSE Deliver(frames, o, sigNum, code, addr, uc)
    /\ UNCHANGED <<signalVars, g_monitorContext, g_stackCursor,
                   threadsSuspended, controllerVars, registryVars,
                   nextReportID>>
    /\ UNCHANGED <<storeVars, uncaughtExceptionHandler, threadFrames,
                   installThreads>>

Running(pc) == proc = "running" /\ frames # <<>> /\ Top.pc = pc

\* handleSignal capturing whether or not the detector is enabled.
CaptureEnabled_Always == TRUE

\* Line 100: if(g_isEnabled)
CaptureEnabled == g_isEnabled

\* Lines 100-105.
HS_Begin ==
    /\ Running("trapped")
    /\ IF CaptureEnabled
       THEN /\ threadsSuspended' = TRUE
            /\ NotifyFatalExceptionCaptured
            /\ frames' = SetTop([Top EXCEPT !.pc = "fill"])
            /\ obs' = [obs EXCEPT !.captures = @ + 1]
       ELSE /\ frames' = SetTop([Top EXCEPT !.pc = "forward"])
            /\ UNCHANGED <<threadsSuspended, g_handlingFatalException,
                           g_crashedDuringExceptionHandling, obs>>
    /\ UNCHANGED <<signalVars, g_monitorContext, g_stackCursor,
                   g_handleSignalHasBeenCalled, exitCode, proc, controllerVars,
                   g_onExceptionEvent, userMonitorEnabled, nextReportID>>
    /\ UNCHANGED <<storeVars, uncaughtExceptionHandler, threadFrames,
                   installThreads>>

\* The context without the store to registersAreValid.
FillContext_NoRegisters(f) ==
    [ZeroContext EXCEPT !.crashType = "Signal",
                        !.eventID = "g_eventID",
                        !.offendingMachineContext = "machineContext",
                        !.faultAddress = f.si_addr,
                        !.userContext = f.userContext,
                        !.signum = f.si_signo,
                        !.sigcode = f.si_code,
                        !.stackCursor = "g_stackCursor"]

\* Lines 112-122: the context of the capture of the activation f.
FillContext(f) ==
    [ZeroContext EXCEPT !.crashType = "Signal",
                        !.eventID = "g_eventID",
                        !.offendingMachineContext = "machineContext",
                        !.registersAreValid = TRUE,
                        !.faultAddress = f.si_addr,
                        !.userContext = f.userContext,
                        !.signum = f.si_signo,
                        !.sigcode = f.si_code,
                        !.stackCursor = "g_stackCursor"]

\* Lines 107-122.
HS_FillContext ==
    /\ Running("fill")
    /\ frames' = SetTop([Top EXCEPT !.pc = "dispatch",
                                    !.machineContext = Top.userContext])
    /\ g_stackCursor' = [maxDepth |-> "KSSC_MAX_STACK_DEPTH",
                         machineContext |-> "machineContext"]
    /\ g_monitorContext' = FillContext(Top)
    /\ UNCHANGED <<signalVars, g_handleSignalHasBeenCalled, threadsSuspended,
                   exitCode, proc, controllerVars, registryVars, nextReportID,
                   obs>>
    /\ UNCHANGED <<storeVars, uncaughtExceptionHandler, threadFrames,
                   installThreads>>

\* Line 124: kscm_handleException, and onCrash (lines 130-146) up to the call
\* of the report writer.
HS_HandleException ==
    /\ Running("dispatch")
    /\ LET c == HandleExceptionContext(g_monitorContext,
                                       g_crashedDuringExceptionHandling, TRUE)
           h == [obs EXCEPT !.handed = Append(@,
                     [context |-> g_monitorContext,
                      eventID |-> g_eventID,
                      cursor |-> g_stackCursor,
                      delivered |-> [si_signo |-> Top.si_signo,
                                     si_code |-> Top.si_code,
                                     si_addr |-> Top.si_addr,
                                     userContext |-> Top.userContext]])]
           o == [h EXCEPT !.events = Append(@, EventOf(c))]
       IN  /\ g_monitorContext' = c
           /\ IF g_onExceptionEvent = NULL
              THEN /\ frames' = SetTop([Top EXCEPT !.pc = "handled"])
                   /\ obs' = h
                   /\ UNCHANGED <<nextReportID, g_lastCrashReportFilePath,
                                  reportStore>>
              ELSE IF IsRecrash(c)
              THEN /\ frames' = SetTop([Top EXCEPT !.pc = "handled"])
                   /\ obs' = [o EXCEPT !.written = Append(@,
                                 [kind |-> "recrash",
                                  path |-> g_lastCrashReportFilePath])]
                   /\ reportStore' = StoreRecrash(reportStore,
                                          g_lastCrashReportFilePath,
                                          g_maxReportCount)
                   /\ UNCHANGED <<nextReportID, g_lastCrashReportFilePath>>
              ELSE /\ frames' = SetTop([Top EXCEPT !.pc = "writing",
                                                   !.reportID = nextReportID])
                   /\ nextReportID' = nextReportID + 1
                   /\ g_lastCrashReportFilePath' =
                          strncpy(PathOfReport(nextReportID))
                   /\ obs' = o
                   /\ UNCHANGED reportStore
    /\ UNCHANGED <<signalVars, g_stackCursor, g_handleSignalHasBeenCalled,
                   threadsSuspended, exitCode, proc, g_installed, g_monitoring,
                   g_reportWrittenCallback, g_lastApplicationState,
                   registryVars>>
    /\ UNCHANGED <<g_maxReportCount, uncaughtExceptionHandler, threadFrames,
                   installThreads>>

\* Lines 147-152: the standard report is written, the callback told.
HS_ReportWritten ==
    /\ Running("writing")
    /\ frames' = SetTop([Top EXCEPT !.pc = "handled"])
    /\ obs' = NotifyReportWritten(
                  [obs EXCEPT !.writes = @ + 1,
                              !.written = Append(@,
                      [kind |-> "standard",
                       path |-> PathOfReport(Top.reportID)])],
                  Top.reportID)
    /\ reportStore' = StoreWrite(reportStore, Top.reportID, g_maxReportCount)
    /\ UNCHANGED <<signalVars, g_monitorContext, g_stackCursor,
                   g_handleSignalHasBeenCalled, threadsSuspended, exitCode,
                   proc, controllerVars, registryVars, nextReportID>>
    /\ UNCHANGED <<g_maxReportCount, uncaughtExceptionHandler, threadFrames,
                   installThreads>>

\* Line 125.
\* handleSignal without its call of ksmc_resumeEnvironment.
ksmc_resumeEnvironment_Skipped == TRUE

\* Line 125: whether the other threads are stopped after
\* ksmc_resumeEnvironment(threads, numThreads).
ksmc_resumeEnvironment == FALSE

HS_Resume ==
    /\ Running("handled")
    /\ threadsSuspended' = ksmc_resumeEnvironment
    /\ frames' = SetTop([Top EXCEPT !.pc = "forward"])
    /\ UNCHANGED <<signalVars, g_monitorContext, g_stackCursor,
                   g_handleSignalHasBeenCalled, exitCode, proc, controllerVars,
                   registryVars, nextReportID, obs>>
    /\ UNCHANGED <<storeVars, uncaughtExceptionHandler, threadFrames,
                   installThreads>>

\* Line 132: the loop test, for(int i=0;i>fatalSignalsCount;i++)
ForwardLoopTest(i, count) == i > count

\* Lines 132-138: the saved handler the loop finds for sigNum, NULL if none.
RECURSIVE ForwardSearch(_, _, _)
ForwardSearch(i, sigNum, prev) ==
    IF ForwardLoopTest(i, fatalSignalsCount)
    THEN IF fatalSignals(i) = sigNum /\ prev[i] # NULL
         THEN prev[i]
         ELSE ForwardSearch(i + 1, sigNum, prev)
    ELSE NULL

\* Lines 128-141.  A saved handler that is called is outside this program:
\* it is recorded and takes the process over.
HS_Forward ==
    /\ Running("forward")
    /\ LET h == ForwardSearch(0, Top.sigNum, g_previousSignalHandlers.h)
       IN  IF h # NULL
           THEN /\ obs' = [obs EXCEPT !.chained = Append(@,
                              [handler |-> h, sigNum |-> Top.sigNum,
                               si_signo |-> Top.si_signo,
                               si_code |-> Top.si_code,
                               si_addr |-> Top.si_addr,
                               userContext |-> Top.userContext])]
                /\ proc' = "killed"
                /\ frames' = SetTop([Top EXCEPT !.pc = "chained"])
           ELSE /\ obs' = [obs EXCEPT !.raised = Append(@, Top.sigNum)]
                /\ frames' = SetTop([Top EXCEPT !.pc = "return"])
                /\ UNCHANGED proc
    /\ UNCHANGED <<signalVars, g_monitorContext, g_stackCursor,
                   g_handleSignalHasBeenCalled, threadsSuspended, exitCode,
                   controllerVars, registryVars, nextReportID>>
    /\ UNCHANGED <<storeVars, uncaughtExceptionHandler, threadFrames,
                   installThreads>>

\* Line 143: handleSignal returns; the signal it raised was blocked while it
\* ran and is delivered now.
HS_Return ==
    /\ Running("return")
    /\ Deliver(SubSeq(frames, 1, Len(frames) - 1), obs, Top.sigNum, 0, 0,
               Top.userContext)
    /\ UNCHANGED <<signalVars, g_monitorContext, g_stackCursor,
                   threadsSuspended, controllerVars, registryVars,
                   nextReportID>>
    /\ UNCHANGED <<storeVars, uncaughtExceptionHandler, threadFrames,
                   installThreads>>

\* ------------------------------------------------- lifecycle notifications

Notifications ==
    {[kind |-> "Active", flag |-> b] : b \in BOOLEAN}
      \cup {[kind |-> "InForeground", flag |-> b] : b \in BOOLEAN}
      \cup {[kind |-> "Terminate", flag |-> TRUE]}

\* Lines 405-407, 416-418, 427: the state a notification leaves in
\* g_lastApplicationState.
StateOfNotification(n) ==
    CASE n.kind = "Active" ->
             IF n.flag THEN "KSApplicationStateDidBecomeActive"
             ELSE "KSApplicationStateWillResignActiveActive"
      [] n.kind = "InForeground" ->
             IF n.flag THEN "KSApplicationStateWillEnterForeground"
             ELSE "KSApplicationStateDidEnterBackground"
      [] OTHER -> "KSApplicationStateWillTerminate"

\* The replay with the two foreground cases exchanged.
notifyOfBeforeInstallationState_Swapped(state) ==
    CASE state = "KSApplicationStateDidBecomeActive" ->
             <<[kind |-> "Active", flag |-> TRUE]>>
      [] state = "KSApplicationStateWillResignActiveActive" ->
             <<[kind |-> "Active", flag |-> FALSE]>>
      [] state = "KSApplicationStateDidEnterBackground" ->
             <<[kind |-> "InForeground", flag |-> TRUE]>>
      [] state = "KSApplicationStateWillEnterForeground" ->
             <<[kind |-> "InForeground", flag |-> FALSE]>>
      [] state = "KSApplicationStateWillTerminate" ->
             <<[kind |-> "Terminate", flag |-> TRUE]>>
      [] OTHER -> <<>>

\* Lines 102-120: the calls notifyOfBeforeInstallationState makes.
notifyOfBeforeInstallationState(state) ==
    CASE state = "KSApplicationStateDidBecomeActive" ->
             <<[kind |-> "Active", flag |-> TRUE]>>
      [] state = "KSApplicationStateWillResignActiveActive" ->
             <<[kind |-> "Active", flag |-> FALSE]>>
      [] state = "KSApplicationStateDidEnterBackground" ->
             <<[kind |-> "InForeground", flag |-> FALSE]>>
      [] state = "KSApplicationStateWillEnterForeground" ->
             <<[kind |-> "InForeground", flag |-> TRUE]>>
      [] state = "KSApplicationStateWillTerminate" ->
             <<[kind |-> "Terminate", flag |-> TRUE]>>
      [] OTHER -> <<>>

\* Lines 401, 412, 423: if (g_installed)
ForwardsNotification(installed) == installed

\* kscrash_install has initialised the report store (line 180) and the state
\* tracker (line 185) and registered onCrash (line 195).
SetupMade ==
    /\ obs.setup["kscrs_initialize"] > 0
    /\ obs.setup["kscrashstate_initialize"] > 0
    /\ g_onExceptionEvent # NULL

\* Lines 399-428: kscrash_notifyAppActive, kscrash_notifyAppInForeground and
\* kscrash_notifyAppTerminate, called by the host.
kscrash_notifyApp(n) ==
    /\ Idle
    /\ Len(obs.received) < MaxNotifications
    /\ g_lastApplicationState' = StateOfNotification(n)
    /\ obs' = [NoteOther(obs) EXCEPT
                  !.received = Append(@, n),
                  !.forwarded = IF ForwardsNotification(g_installed)
                                THEN Append(@, n) ELSE @,
                  !.earlyForward =
                      @ \/ (ForwardsNotification(g_installed) /\ ~SetupMade)]
    /\ UNCHANGED <<signalVars, proc, captureVars, g_installed, g_monitoring,
                   g_lastCrashReportFilePath, g_reportWrittenCallback,
                   registryVars, nextReportID>>
    /\ UNCHANGED <<storeVars, uncaughtExceptionHandler, threadFrames,
                   installThreads>>

\* -------------------------------------------------- installation controller

\* kscrash_install activating the monitors before it registers onCrash.
InstallCalls_MonitorsFirst ==
    <<"ksfu_makePath(Reports)", "kscrs_initialize", "ksfu_makePath(Data)",
      "kscrashstate_initialize", "ksccd_init", "kscrash_setMonitoring",
      "kscm_setEventCallback", "notifyOfBeforeInstallationState">>

\* Lines 177-201: the calls kscrash_install makes, in order.
InstallCalls ==
    <<"ksfu_makePath(Reports)", "kscrs_initialize", "ksfu_makePath(Data)",
      "kscrashstate_initialize", "ksccd_init", "kscm_setEventCallback",
      "kscrash_setMonitoring", "notifyOfBeforeInstallationState">>

\* kscrash_install without its test of g_installed.
AlreadyInstalled_Never == FALSE

\* Line 170: if(g_installed)
AlreadyInstalled == g_installed


\* The results of the latest install calls with no other call in between.
NoteInstallRet(o, ret) ==
    [o EXCEPT !.installRets =
        IF obs.installRets # <<>>
        THEN <<obs.installRets[Len(obs.installRets)], ret>>
        ELSE <<ret>>]

\* Lines 166-204.
kscrash_install(env) ==
    /\ Idle
    /\ IF AlreadyInstalled
       THEN /\ obs' = NoteInstallRet(NoteOther(obs),
                           ActiveMonitors(g_isEnabled, userMonitorEnabled))
            /\ UNCHANGED <<signalVars, proc, controllerVars, registryVars>>
       ELSE /\ CanGenerate("Signal" \in g_monitoring)
            /\ g_installed' = TRUE
            /\ g_onExceptionEvent' = "onCrash"
            /\ userMonitorEnabled' = ("User" \in g_monitoring)
            /\ LET r == setEnabled("Signal" \in g_monitoring, env.altFail,
                                   env.failSet, env.queryFail, "fault")
                   replay == notifyOfBeforeInstallationState(
                                 g_lastApplicationState)
                   o1 == NoteInstallRet(NoteSetEnabled(obs, r),
                             ActiveMonitors(r.enabled, "User" \in g_monitoring))
               IN  /\ ApplySetEnabled(r)
                   /\ g_lastApplicationState' =
                          IF replay = <<>> THEN g_lastApplicationState
                          ELSE StateOfNotification(replay[1])
                   /\ obs' = [o1 EXCEPT
                          !.setup = [s \in SetupSteps |-> @[s] + 1],
                          !.installCalls = @ \o InstallCalls,
                          !.monitoring = obs.monitoring,
                          !.receivedAtInstall = Len(obs.received),
                          !.forwarded = @ \o replay]
            /\ UNCHANGED <<g_monitoring, g_lastCrashReportFilePath,
                           g_reportWrittenCallback, g_handlingFatalException,
                           g_crashedDuringExceptionHandling>>
    /\ UNCHANGED <<captureVars, nextReportID>>
    /\ UNCHANGED <<storeVars, uncaughtExceptionHandler, threadFrames,
                   installThreads>>

\* kscrash_setMonitoring without its test of g_installed.
MonitoringInstalled_Always == TRUE

\* Line 306: if(g_installed)
MonitoringInstalled == g_installed

\* Lines 304-314.
kscrash_setMonitoring(monitors, env, ub) ==
    /\ Idle
    /\ IF MonitoringInstalled
       THEN /\ CanGenerate("Signal" \in monitors)
            /\ userMonitorEnabled' = ("User" \in monitors)
            /\ LET r == setEnabled("Signal" \in monitors, env.altFail,
                                   env.failSet, env.queryFail, ub)
               IN  /\ ApplySetEnabled(r)
                   /\ obs' = [NoteSetEnabled(obs, r) EXCEPT
                          !.earlyActivation =
                              @ \/ (/\ ~SetupMade
                                    /\ ActiveMonitors(r.enabled,
                                           "User" \in monitors) # {}),
                          !.monitoring =
                              [called |-> TRUE, installed |-> g_installed,
                               monitors |-> monitors,
                               ret |-> ActiveMonitors(r.enabled,
                                           "User" \in monitors)]]
       ELSE /\ obs' = [NoteOther(obs) EXCEPT
                          !.monitoring =
                              [called |-> TRUE, installed |-> g_installed,
                               monitors |-> monitors,
                               ret |-> KSCrashMonitorTypeNone]]
            /\ UNCHANGED <<signalVars, proc, userMonitorEnabled>>
    /\ UNCHANGED <<captureVars, controllerVars, g_onExceptionEvent,
                   g_handlingFatalException, g_crashedDuringExceptionHandling,
                   nextReportID>>
    /\ UNCHANGED <<storeVars, uncaughtExceptionHandler, threadFrames,
                   installThreads>>

\* Lines 348-351.
kscrash_setReportWrittenCallback(onReportWrittenNotify) ==
    /\ Idle
    /\ g_reportWrittenCallback # onReportWrittenNotify
    /\ g_reportWrittenCallback' = onReportWrittenNotify
    /\ obs' = NoteOther(obs)
    /\ UNCHANGED <<signalVars, proc, captureVars, g_installed, g_monitoring,
                   g_lastCrashReportFilePath, g_lastApplicationState,
                   registryVars, nextReportID>>
    /\ UNCHANGED <<storeVars, uncaughtExceptionHandler, threadFrames,
                   installThreads>>

\* A detector other than the signal detector captures an event and hands it
\* to the registry: kscm_notifyFatalExceptionCaptured when the event is
\* fatal, then kscm_handleException, which calls onCrash (lines 130-154).
\* With a signal capture in progress it is a fault of the capture itself.
OtherMonitorCapture(fatal) ==
    /\ proc = "running"
    /\ userMonitorEnabled
    /\ obs.otherCaptures < MaxOtherCaptures
    /\ frames = <<>> \/ (fatal /\ threadsSuspended)
    /\ LET reentrant == g_crashedDuringExceptionHandling
                            \/ (fatal /\ g_handlingFatalException)
           c == HandleExceptionContext(
                    [ZeroContext EXCEPT !.crashType = "User",
                                        !.currentSnapshotUserReported = ~fatal],
                    reentrant, FALSE)
           h == [NoteOther(obs) EXCEPT !.otherCaptures = @ + 1]
           o == [h EXCEPT !.events = Append(@, EventOf(c))]
       IN  /\ g_crashedDuringExceptionHandling' = reentrant
           /\ g_handlingFatalException' = (g_handlingFatalException \/ fatal)
           /\ IF g_onExceptionEvent = NULL
              THEN /\ obs' = h
                   /\ UNCHANGED <<nextReportID, g_lastCrashReportFilePath,
                                  reportStore>>
              ELSE IF IsRecrash(c)
              THEN /\ obs' = [o EXCEPT !.written = Append(@,
                                 [kind |-> "recrash",
                                  path |-> g_lastCrashReportFilePath])]
                   /\ reportStore' = StoreRecrash(reportStore,
                                          g_lastCrashReportFilePath,
                                          g_maxReportCount)
                   /\ UNCHANGED <<nextReportID, g_lastCrashReportFilePath>>
              ELSE /\ nextReportID' = nextReportID + 1
                   /\ g_lastCrashReportFilePath' =
                          strncpy(PathOfReport(nextReportID))
                   /\ obs' = NotifyReportWritten(
                                 [o EXCEPT !.writes = @ + 1,
                                           !.written = Append(@,
                                     [kind |-> "standard",
                                      path |-> PathOfReport(nextReportID)])],
                                 nextReportID)
                   /\ reportStore' = StoreWrite(reportStore, nextReportID,
                                                g_maxReportCount)
    /\ proc' = IF fatal THEN "killed" ELSE proc
    /\ UNCHANGED <<signalVars, captureVars, g_installed, g_monitoring,
                   g_reportWrittenCallback, g_lastApplicationState,
                   g_onExceptionEvent, userMonitorEnabled>>
    /\ UNCHANGED <<g_maxReportCount, uncaughtExceptionHandler, threadFrames,
                   installThreads>>

\* ------------------------------------------------------------ specifications

Next ==
    \/ \E env \in BasicOutcomes : SetEnabled(TRUE, env, "fault")
    \/ \E ub \in UBOutcomes : SetEnabled(FALSE, NoFailure, ub)
    \/ \E env \in BasicOutcomes : emb_reInstallSignalHandlers(env)
    \/ \E env \in BasicOutcomes : kscrash_install(env)
    \/ \E cb \in {NULL, "onReportWritten"} :
          kscrash_setReportWrittenCallback(cb)
    \/ \E sigNum \in SigNums, d \in Deliveries :
          Fault(sigNum, d.si_code, d.si_addr, d.userContext)
    \/ HS_Begin
    \/ HS_FillContext
    \/ HS_HandleException
    \/ HS_ReportWritten
    \/ HS_Resume
    \/ HS_Forward
    \/ HS_Return
    \/ \E fatal \in BOOLEAN : OtherMonitorCapture(fatal)

Spec == Init /\ [][Next]_vars

\* The signal detector's handlers in the OS table: the monitor API, the
\* re-install entry point and another component installing its handlers.
NextDetector ==
    \/ \E env \in InstallOutcomes : SetEnabled(TRUE, env, "fault")
    \/ \E ub \in UBOutcomes : SetEnabled(FALSE, NoFailure, ub)
    \/ \E env \in InstallOutcomes : emb_reInstallSignalHandlers(env)
    \/ \E i \in Indexes : ThirdPartyInstall(i)

SpecDetector == Init /\ [][NextDetector]_vars

\* What the environment decides in a call of kscrash_setMonitoring: how
\* the installation of the handlers goes when the mask enables the signal
\* detector, how their removal goes when it disables it.
EnableOutcomes(monitors) ==
    IF "Signal" \in monitors THEN StackOutcomes ELSE {NoFailure}

DisableOutcomes(monitors) ==
    IF "Signal" \in monitors THEN {"fault"} ELSE UBOutcomes

\* The installation controller with the host's lifecycle notifications.
NextLifecycle ==
    \/ \E env \in StackOutcomes : kscrash_install(env)
    \/ \E n \in Notifications : kscrash_notifyApp(n)
    \/ \E monitors \in SUBSET MonitorTypes :
          \E env \in EnableOutcomes(monitors), ub \in DisableOutcomes(monitors) :
              kscrash_setMonitoring(monitors, env, ub)

SpecLifecycle == Init /\ [][NextLifecycle]_vars

\* ------------------------------------------- handleSignal on several threads

\* The innermost handleSignal activation of the thread t.
TopOf(t) == threadFrames[t][Len(threadFrames[t])]

SetTopOf(t, f) ==
    [threadFrames EXCEPT ![t] = [@ EXCEPT ![Len(@)] = f]]

At(t, pc) ==
    /\ proc = "running"
    /\ threadFrames[t] # <<>>
    /\ TopOf(t).pc = pc

\* The signals blocked on the thread t: those its activations handle.
BlockedOn(t) == {threadFrames[t][k].sigNum : k \in 1 .. Len(threadFrames[t])}

\* A fatal signal is raised on the thread t, which may be inside
\* handleSignal for another signal, and handleSignal is entered (line 87).
\* As many signals are trapped as there are threads.
T_Trap(t, sigNum, d) ==
    /\ proc = "running"
    /\ obs.entries < NumThreads
    /\ osHandlers[sigNum] = HANDLE_SIGNAL
    /\ sigNum \notin BlockedOn(t)
    /\ threadFrames' = [threadFrames EXCEPT ![t] = Append(@,
           [NewFrame(sigNum, d.si_code, d.si_addr, d.userContext)
                EXCEPT !.pc = "guard"])]
    /\ obs' = [obs EXCEPT !.entries = @ + 1]
    /\ UNCHANGED <<signalVars, captureVars, proc, controllerVars, registryVars,
                   nextReportID, storeVars, uncaughtExceptionHandler>>
    /\ UNCHANGED installThreads

\* Lines 90-95: the test of the latch.
T_Guard(t) ==
    /\ At(t, "guard")
    /\ IF HasBeenCalled
       THEN /\ proc' = "exited"
            /\ exitCode' = TopOf(t).sigNum
            /\ UNCHANGED threadFrames
       ELSE /\ threadFrames' = SetTopOf(t, [TopOf(t) EXCEPT !.pc = "latch"])
            /\ UNCHANGED <<proc, exitCode>>
    /\ UNCHANGED <<signalVars, g_monitorContext, g_stackCursor,
                   g_handleSignalHasBeenCalled, frames, threadsSuspended,
                   controllerVars, registryVars, nextReportID, storeVars,
                   uncaughtExceptionHandler, obs>>
    /\ UNCHANGED installThreads

\* Line 97: the store to the latch.
T_Latch(t) ==
    /\ At(t, "latch")
    /\ g_handleSignalHasBeenCalled' = LatchAfterEntry
    /\ threadFrames' = SetTopOf(t, [TopOf(t) EXCEPT !.pc = "trapped"])
    /\ UNCHANGED <<signalVars, g_monitorContext, g_stackCursor, frames,
                   threadsSuspended, exitCode, proc, controllerVars,
                   registryVars, nextReportID, storeVars,
                   uncaughtExceptionHandler, obs>>
    /\ UNCHANGED installThreads

\* Lines 100-126: the capture body, during which every other thread is
\* stopped: suspend, fill the shared context and the cursor, hand the
\* context over, resume.
T_Capture(t) ==
    /\ At(t, "trapped")
    /\ IF CaptureEnabled
       THEN /\ g_stackCursor' = [maxDepth |-> "KSSC_MAX_STACK_DEPTH",
                                 machineContext |-> "machineContext"]
            /\ g_monitorContext' = FillContext(TopOf(t))
            /\ obs' = [obs EXCEPT !.captures = @ + 1]
       ELSE UNCHANGED <<g_stackCursor, g_monitorContext, obs>>
    /\ threadFrames' = SetTopOf(t, [TopOf(t) EXCEPT !.pc = "forward"])
    /\ UNCHANGED <<signalVars, g_handleSignalHasBeenCalled, frames,
                   threadsSuspended, exitCode, proc, controllerVars,
                   registryVars, nextReportID, storeVars,
                   uncaughtExceptionHandler>>
    /\ UNCHANGED installThreads

\* Lines 128-143: no saved handler is found, the signal is re-raised and,
\* when handleSignal returns, delivered to the thread again.
T_Forward(t) ==
    /\ At(t, "forward")
    /\ ForwardSearch(0, TopOf(t).sigNum, g_previousSignalHandlers.h) = NULL
    /\ IF osHandlers[TopOf(t).sigNum] = HANDLE_SIGNAL
       THEN /\ threadFrames' = SetTopOf(t, [TopOf(t) EXCEPT !.pc = "guard"])
            /\ UNCHANGED proc
       ELSE /\ proc' = "killed"
            /\ UNCHANGED threadFrames
    /\ UNCHANGED <<signalVars, captureVars, controllerVars, registryVars,
                   nextReportID, storeVars, uncaughtExceptionHandler, obs>>
    /\ UNCHANGED installThreads

\* What the OS hands to handleSignal with a signal trapped on a thread.
ThreadDelivery == CHOOSE d \in Deliveries : TRUE

\* No thread is inside handleSignal.
ThreadsIdle == \A t \in Threads : threadFrames[t] = <<>>

\* setEnabled called, to change the state of the monitor, while no thread
\* is handling a signal.
T_SetEnabled(enable) ==
    /\ ThreadsIdle
    /\ enable # g_isEnabled
    /\ SetEnabled(enable, NoFailure, "fault")

NextThreads ==
    \/ \E enable \in BOOLEAN : T_SetEnabled(enable)
    \/ \E t \in Threads, sigNum \in SigNums :
           T_Trap(t, sigNum, ThreadDelivery)
    \/ \E t \in Threads : T_Guard(t)
    \/ \E t \in Threads : T_Latch(t)
    \/ \E t \in Threads : T_Capture(t)
    \/ \E t \in Threads : T_Forward(t)

SpecThreads == Init /\ [][NextThreads]_vars

\* ------------------------------------------ kscrash_install on several threads

InstallThread(t, pc) ==
    /\ Idle
    /\ installThreads[t] = pc

GoTo(t, pc) == installThreads' = [installThreads EXCEPT ![t] = pc]

\* The calls of kscrash_install in steps have been made.
NoteSetup(o, steps) ==
    [o EXCEPT !.setup = [st \in SetupSteps |->
                            IF st \in steps THEN @[st] + 1 ELSE @[st]]]

\* The thread t calls kscrash_install (line 166).
I_Call(t) ==
    /\ InstallThread(t, "out")
    /\ GoTo(t, "test")
    /\ UNCHANGED <<signalVars, proc, captureVars, controllerVars, registryVars,
                   nextReportID, storeVars, uncaughtExceptionHandler,
                   threadFrames, obs>>

\* Lines 170-174: the test of g_installed.
I_Test(t) ==
    /\ InstallThread(t, "test")
    /\ GoTo(t, IF AlreadyInstalled THEN "returned" ELSE "set")
    /\ UNCHANGED <<signalVars, proc, captureVars, controllerVars, registryVars,
                   nextReportID, storeVars, uncaughtExceptionHandler,
                   threadFrames, obs>>

\* Line 175: g_installed = 1.
I_SetInstalled(t) ==
    /\ InstallThread(t, "set")
    /\ g_installed' = TRUE
    /\ GoTo(t, "store")
    /\ UNCHANGED <<signalVars, proc, captureVars, g_monitoring,
                   g_lastCrashReportFilePath, g_reportWrittenCallback,
                   g_lastApplicationState, registryVars, nextReportID,
                   storeVars, uncaughtExceptionHandler, threadFrames, obs>>

\* Lines 177-180: the report store.
I_Store(t) ==
    /\ InstallThread(t, "store")
    /\ obs' = NoteSetup(obs, {"ksfu_makePath(Reports)", "kscrs_initialize"})
    /\ GoTo(t, "state")
    /\ UNCHANGED <<signalVars, proc, captureVars, controllerVars, registryVars,
                   nextReportID, storeVars, uncaughtExceptionHandler,
                   threadFrames>>

\* Lines 182-193: the state tracker, the console log, the cached data.
I_State(t) ==
    /\ InstallThread(t, "state")
    /\ obs' = NoteSetup(obs, {"ksfu_makePath(Data)", "kscrashstate_initialize",
                              "ksccd_init"})
    /\ GoTo(t, "callback")
    /\ UNCHANGED <<signalVars, proc, captureVars, controllerVars, registryVars,
                   nextReportID, storeVars, uncaughtExceptionHandler,
                   threadFrames>>

\* Line 195: kscm_setEventCallback(onCrash).
I_Callback(t) ==
    /\ InstallThread(t, "callback")
    /\ g_onExceptionEvent' = "onCrash"
    /\ obs' = NoteSetup(obs, {"kscm_setEventCallback"})
    /\ GoTo(t, "monitors")
    /\ UNCHANGED <<signalVars, proc, captureVars, controllerVars,
                   userMonitorEnabled, g_handlingFatalException,
                   g_crashedDuringExceptionHandling, nextReportID, storeVars,
                   uncaughtExceptionHandler, threadFrames>>

\* Line 196: kscrash_setMonitoring(g_monitoring), g_installed being set.
I_Monitors(t) ==
    /\ InstallThread(t, "monitors")
    /\ CanGenerate("Signal" \in g_monitoring)
    /\ userMonitorEnabled' = ("User" \in g_monitoring)
    /\ LET r == setEnabled("Signal" \in g_monitoring, FALSE, {}, {}, "fault")
       IN  /\ ApplySetEnabled(r)
           /\ obs' = NoteSetup(NoteSetEnabled(obs, r),
                               {"kscrash_setMonitoring"})
    /\ GoTo(t, "replay")
    /\ UNCHANGED <<captureVars, controllerVars, g_onExceptionEvent,
                   g_handlingFatalException, g_crashedDuringExceptionHandling,
                   nextReportID, storeVars, uncaughtExceptionHandler,
                   threadFrames>>

\* Lines 200-203: notifyOfBeforeInstallationState, return.
I_Replay(t) ==
    /\ InstallThread(t, "replay")
    /\ LET replay == notifyOfBeforeInstallationState(g_lastApplicationState)
       IN  /\ g_lastApplicationState' =
                  IF replay = <<>> THEN g_lastApplicationState
                  ELSE StateOfNotification(replay[1])
           /\ obs' = [NoteSetup(obs, {"notifyOfBeforeInstallationState"})
                         EXCEPT !.forwarded = @ \o replay]
    /\ GoTo(t, "returned")
    /\ UNCHANGED <<signalVars, proc, captureVars, g_installed, g_monitoring,
                   g_lastCrashReportFilePath, g_reportWrittenCallback,
                   registryVars, nextReportID, storeVars,
                   uncaughtExceptionHandler, threadFrames>>

\* Some thread is inside kscrash_install.
Installing == \E t \in Installers : installThreads[t] \notin {"out", "returned"}

\* The host calls a lifecycle notification or kscrash_setMonitoring on
\* another thread while a thread is inside kscrash_install.
I_notifyApp(n) ==
    /\ Installing
    /\ kscrash_notifyApp(n)

I_setMonitoring(monitors) ==
    /\ Installing
    /\ kscrash_setMonitoring(monitors, NoFailure, "fault")

\* What the host calls them with: kscrash_notifyAppActive with either flag,
\* kscrash_setMonitoring with no monitor or with the user-report monitor.
HostNotifications == {n \in Notifications : n.kind = "Active"}

HostMasks == {KSCrashMonitorTypeNone, {"User"}}

NextInstallThreads ==
    \/ \E t \in Installers : I_Call(t)
    \/ \E t \in Installers : I_Test(t)
    \/ \E t \in Installers : I_SetInstalled(t)
    \/ \E t \in Installers : I_Store(t)
    \/ \E t \in Installers : I_State(t)
    \/ \E t \in Installers : I_Callback(t)
    \/ \E t \in Installers : I_Monitors(t)
    \/ \E t \in Installers : I_Replay(t)
    \/ \E n \in HostNotifications : I_notifyApp(n)
    \/ \E monitors \in HostMasks : I_setMonitoring(monitors)

SpecInstallThreads == Init /\ [][NextInstallThreads]_vars

\* ------------------------------------------------------- report store API

MaxReports == 4

MaxCount == 2

\* The argument kscrash_setMaxReportCount hands on, one more than given.
MaxReportCountArgument_OffByOne(maxReportCount) == maxReportCount + 1

\* Line 365: kscrs_setMaxReportCount(maxReportCount)
MaxReportCountArgument(maxReportCount) == maxReportCount

\* Lines 363-366.
kscrash_setMaxReportCount(maxReportCount) ==
    /\ Idle
    /\ g_maxReportCount' = MaxReportCountArgument(maxReportCount)
    /\ obs' = [NoteOther(obs) EXCEPT !.maxPassed = maxReportCount,
                                     !.writes = 0]
    /\ UNCHANGED <<signalVars, proc, captureVars, controllerVars, registryVars,
                   nextReportID, reportStore, uncaughtExceptionHandler,
                   threadFrames, installThreads>>

\* Lines 470-473: kscrs_addUserReport allocates the next id, writes the
\* report and evicts.
kscrash_addUserReport ==
    /\ Idle
    /\ nextReportID <= MaxReports
    /\ nextReportID' = nextReportID + 1
    /\ reportStore' = StoreWrite(reportStore, nextReportID, g_maxReportCount)
    /\ obs' = [NoteOther(obs) EXCEPT !.writes = @ + 1]
    /\ UNCHANGED <<signalVars, proc, captureVars, controllerVars, registryVars,
                   g_maxReportCount, uncaughtExceptionHandler, threadFrames,
                   installThreads>>

\* kscrs_readReport: the raw report, or NULL when the store has no such
\* report or cannot read it.
kscrs_readReport(reportID, ioOK) ==
    IF reportID \in reportStore /\ ioOK THEN "rawReport" ELSE NULL

\* kscrf_fixupCrashReport: the fixed report, or NULL on failure.
kscrf_fixupCrashReport(rawReport, fixOK) ==
    IF fixOK THEN "fixedReport" ELSE NULL

\* The test of kscrash_readReport letting the id 0 through.
InvalidReportID_ZeroAllowed(reportID) == reportID < 0

\* Line 447: if(reportID <= 0)
InvalidReportID(reportID) == reportID <= 0

\* Lines 445-468: the result of kscrash_readReport and the calls it made.
readReport(reportID, ioOK, fixOK) ==
    IF InvalidReportID(reportID)
    THEN [storeRead |-> FALSE, fixup |-> FALSE, result |-> NULL]
    ELSE LET rawReport == kscrs_readReport(reportID, ioOK)
         IN  IF rawReport = NULL
             THEN [storeRead |-> TRUE, fixup |-> FALSE, result |-> NULL]
             ELSE [storeRead |-> TRUE, fixup |-> TRUE,
                   result |-> kscrf_fixupCrashReport(rawReport, fixOK)]

kscrash_readReport(reportID, ioOK, fixOK) ==
    /\ Idle
    /\ LET r == readReport(reportID, ioOK, fixOK)
       IN  obs' = [NoteOther(obs) EXCEPT !.read =
                      [called |-> TRUE, reportID |-> reportID,
                       stored |-> reportID \in reportStore,
                       ioOK |-> ioOK, fixOK |-> fixOK,
                       storeRead |-> r.storeRead, fixup |-> r.fixup,
                       result |-> r.result]]
    /\ UNCHANGED <<signalVars, proc, captureVars, controllerVars, registryVars,
                   nextReportID, storeVars, uncaughtExceptionHandler, threadFrames,
                   installThreads>>

\* Lines 368-387 with terminateProgram false: the user-exception detector
\* hands its event to the registry and so to onCrash.
kscrash_reportUserException ==
    /\ nextReportID <= MaxReports
    /\ OtherMonitorCapture(FALSE)

NextStore ==
    \/ \E n \in 0 .. MaxCount : kscrash_setMaxReportCount(n)
    \/ kscrash_addUserReport
    \/ \E id \in -1 .. MaxReports, ioOK \in BOOLEAN :
           \E fixOK \in IF ioOK THEN BOOLEAN ELSE {TRUE} :
               kscrash_readReport(id, ioOK, fixOK)
    \/ ~g_installed /\ kscrash_install(NoFailure)
    \/ kscrash_reportUserException

SpecStore == Init /\ [][NextStore]_vars

\* ------------------------------------------------------ kscrash_re_install

MaxReInstalls == 2

\* The handler of this library and a handler of another component in the
\* uncaught-exception handler chain.
KSCRASH_HANDLER == "KSCrash"

OTHER_HANDLER == "other"

\* The top of the chain after forceExceptionHandlerToTopOfStack().
forceExceptionHandlerToTopOfStack == KSCRASH_HANDLER

\* kscrash_re_install ignoring whether kscrash_install has run.
InstallRequired_Never == FALSE

\* Line 208: if(g_installed == 0)
InstallRequired == ~g_installed

\* Lines 206-217.
kscrash_re_install ==
    /\ Idle
    /\ obs.reInstalls < MaxReInstalls
    /\ uncaughtExceptionHandler' =
           IF InstallRequired THEN uncaughtExceptionHandler
           ELSE forceExceptionHandlerToTopOfStack
    /\ obs' = [NoteOther(obs) EXCEPT !.reInstalls = @ + 1]
    /\ UNCHANGED <<signalVars, proc, captureVars, controllerVars, registryVars,
                   nextReportID, storeVars, threadFrames, installThreads>>

\* Another component puts its handler on top of the chain.
OtherExceptionHandlerInstall ==
    /\ Idle
    /\ uncaughtExceptionHandler # OTHER_HANDLER
    /\ uncaughtExceptionHandler' = OTHER_HANDLER
    /\ obs' = NoteOther(obs)
    /\ UNCHANGED <<signalVars, proc, captureVars, controllerVars, registryVars,
                   nextReportID, storeVars, threadFrames, installThreads>>

NextReInstall ==
    \/ kscrash_re_install
    \/ OtherExceptionHandlerInstall
    \/ \E env \in StackOutcomes : kscrash_install(env)
    \/ \E n \in Notifications : kscrash_notifyApp(n)

SpecReInstall == Init /\ [][NextReInstall]_vars

\* -------------------------------------------------------------- claims

\* The chain-table entry of the signal sigNum.
SavedHandler(sigNum) ==
    LET i == CHOOSE j \in Indexes : fatalSignals(j) = sigNum
    IN  g_previousSignalHandlers.h[i]

HasRecrash == \E k \in 1 .. Len(obs.written) : obs.written[k].kind = "recrash"

\* C1 (as claimed): after a setEnabled(true) whose installSignalHandler
\* failed (sigaltstack or a sigaction call), isEnabled() is false.
C1_FailedEnableLeavesDisabled ==
    obs.last = "enableFailed" => ~isEnabled

\* C2 (as claimed): when handleSignal is done with its capture of signal s
\* and the chain table holds a previous handler for s, that handler is called
\* with the same signal number, signal info and user context and the signal
\* is not re-raised; the signal is re-raised only when none is saved.
C2_ForwardsToPrevious ==
    \A k \in 1 .. Len(frames) :
        frames[k].pc \in {"return", "chained"} =>
            IF SavedHandler(frames[k].sigNum) # NULL
            THEN /\ obs.chained =
                        <<[handler |-> SavedHandler(frames[k].sigNum),
                           sigNum |-> frames[k].sigNum,
                           si_signo |-> frames[k].si_signo,
                           si_code |-> frames[k].si_code,
                           si_addr |-> frames[k].si_addr,
                           userContext |-> frames[k].userContext]>>
                 /\ obs.raised = <<>>
            ELSE /\ obs.chained = <<>>
                 /\ obs.raised = <<frames[k].sigNum>>

\* C3: once handleSignal has been entered, every later entry ends the process
\* at once and does nothing else: no thread is suspended, the shared context
\* and the stack cursor are not written, kscm_handleException and the write
\* callback are not called, no report is written and the signal is neither
\* forwarded nor re-raised; an ended process takes no step.
C3_RecursionGuard ==
    [][/\ proc = "running"
       /\ (obs.entries >= 1 /\ obs'.entries = obs.entries + 1) =>
              /\ proc' = "exited"
              /\ UNCHANGED <<threadsSuspended, g_monitorContext, g_stackCursor,
                             nextReportID, g_lastCrashReportFilePath>>
              /\ obs'.handed = obs.handed
              /\ obs'.events = obs.events
              /\ obs'.written = obs.written
              /\ obs'.callbacks = obs.callbacks
              /\ obs'.chained = obs.chained
              /\ obs'.raised = obs.raised]_vars

\* C3 witness: a second entry after the first handleSignal returned (the
\* signal it re-raised) ended the process.
C3_Witness ==
    /\ obs.entries = 2
    /\ proc = "exited"
    /\ frames = <<>>
    /\ obs.raised # <<>>

C5_DisableRestores ==
    (obs.last = "disabled" /\ obs.hasPreEnable) =>
        /\ osHandlers = obs.preEnable
        /\ g_previousSignalHandlers.h = ZeroHandlers

\* C6: kscrash_install makes each of its setup calls exactly once however
\* often it is called; two calls in a row return the same mask, and a call
\* made when installed changes nothing but what it returns.
C6_InstallOnce ==
    /\ [](/\ \A st \in SetupSteps :
                obs.setup[st] = IF g_installed THEN 1 ELSE 0
          /\ Len(obs.installRets) = 2 =>
                obs.installRets[1] = obs.installRets[2])
    /\ [][(g_installed /\ obs'.installRets # <<>>) =>
              /\ UNCHANGED <<signalVars, proc, captureVars, controllerVars,
                             registryVars, nextReportID>>
              /\ obs'.setup = obs.setup
              /\ obs'.forwarded = obs.forwarded]_vars

\* C6 witness: two calls in a row, both returning a mask with the signal
\* detector in it.
C6_Witness ==
    /\ Len(obs.installRets) = 2
    /\ "Signal" \in obs.installRets[2]

\* C7: before install no notification reaches the state tracker; install
\* forwards the last notification received before it, and only that one, or
\* none when none was received; every later notification is forwarded as it
\* comes.
C7_LifecycleReplay ==
    LET k == obs.receivedAtInstall
        n == Len(obs.received)
    IN  IF ~g_installed
        THEN obs.forwarded = <<>>
        ELSE obs.forwarded =
                 (IF k = 0 THEN <<>> ELSE <<obs.received[k]>>)
                     \o SubSeq(obs.received, k + 1, n)

\* C7 witness: notifications before and after install, the replay included.
C7_Witness ==
    /\ g_installed
    /\ obs.receivedAtInstall = 2
    /\ obs.received[1] # obs.received[2]
    /\ Len(obs.forwarded) = 1

\* C8: an event with the re-entrant flag makes onCrash write one recrash
\* report at the path in g_lastCrashReportFilePath, allocate no report id,
\* leave g_lastCrashReportFilePath as it is and not call the report-written
\* callback.
C8_RecrashWrite ==
    [][(/\ Len(obs'.events) = Len(obs.events) + 1
        /\ obs'.events[Len(obs'.events)].crashedDuringCrashHandling) =>
           /\ obs'.written = Append(obs.written,
                                    [kind |-> "recrash",
                                     path |-> g_lastCrashReportFilePath])
           /\ UNCHANGED <<nextReportID, g_lastCrashReportFilePath>>
           /\ obs'.callbacks = obs.callbacks]_vars

\* C8 witness: a re-entrant event arrived while the standard report of an
\* allocated id was being written and a report-written callback was set.
C8_Witness ==
    /\ obs.events # <<>>
    /\ obs.events[Len(obs.events)].crashedDuringCrashHandling
    /\ obs.written = <<[kind |-> "recrash", path |-> g_lastCrashReportFilePath]>>
    /\ g_lastCrashReportFilePath # 0
    /\ g_reportWrittenCallback # NULL
    /\ obs.callbacks = <<>>

\* The context the claim C9 describes for what the OS delivered; uc is the
\* value of the field signal.userContext.
ClaimedContext(delivered, uc) ==
    [ZeroContext EXCEPT !.crashType = "Signal",
                        !.eventID = "g_eventID",
                        !.faultAddress = delivered.si_addr,
                        !.signum = delivered.si_signo,
                        !.sigcode = delivered.si_code,
                        !.offendingMachineContext = "machineContext",
                        !.stackCursor = "g_stackCursor",
                        !.registersAreValid = TRUE,
                        !.userContext = uc]

HandedAsClaimed(h, uc) ==
    /\ h.context = ClaimedContext(h.delivered, uc)
    /\ h.eventID >= 1
    /\ h.cursor.maxDepth = "KSSC_MAX_STACK_DEPTH"
    /\ h.cursor.machineContext # NULL

\* C9 (as claimed): the context handed to kscm_handleException holds the
\* kind Signal, the session event id, the delivered fault address, signal
\* number and code, a machine-state snapshot, a stack cursor of the maximum
\* depth and registersAreValid, and every other field, signal.userContext
\* among them, is zero.
C9_ContextAllElseZero ==
    \A k \in 1 .. Len(obs.handed) : HandedAsClaimed(obs.handed[k], NULL)

\* C9 (amended): as claimed, except that signal.userContext holds the user
\* context the OS delivered; every field not listed is zero.
C9_ContextFilled ==
    \A k \in 1 .. Len(obs.handed) :
        HandedAsClaimed(obs.handed[k], obs.handed[k].delivered.userContext)

\* C9 witness: a capture of a signal delivered with si_code 2.
C9_Witness ==
    /\ Len(obs.handed) = 1
    /\ obs.handed[1].delivered.si_code = 2
    /\ obs.handed[1].context.sigcode = 2

\* C10: ksid_generate runs exactly when the detector goes from disabled to
\* enabled, g_eventID changes only then and to the identifier just
\* generated, and every capture carries the identifier generated last.
C10_EventID ==
    /\ [](\A k \in 1 .. Len(obs.handed) :
              /\ obs.handed[k].context.eventID = "g_eventID"
              /\ obs.handed[k].eventID = idsGenerated
              /\ obs.handed[k].eventID >= 1)
    /\ [][/\ (idsGenerated' # idsGenerated) <=> (~g_isEnabled /\ g_isEnabled')
          /\ (g_eventID' # g_eventID) <=> (~g_isEnabled /\ g_isEnabled')
          /\ (g_eventID' # g_eventID) =>
                 (idsGenerated' = idsGenerated + 1 /\ g_eventID' = idsGenerated')
         ]_vars

\* C10 witness: a capture in the second session of the detector.
C10_Witness ==
    /\ Len(obs.handed) = 1
    /\ obs.handed[1].eventID = 2
    /\ idsGenerated = 2

\* C11: kscrash_re_install before kscrash_install changes nothing: neither
\* the signal handlers, nor the uncaught-exception handler chain, nor any
\* other state; after kscrash_install it puts this library's handler on top
\* of the chain and repeats no installation step: no setup call, no callback
\* registration, no monitor activation and no lifecycle replay.
C11_ReInstall ==
    [][(obs'.reInstalls # obs.reInstalls) =>
           /\ UNCHANGED <<signalVars, proc, captureVars, controllerVars,
                          registryVars, nextReportID, storeVars, threadFrames,
                          installThreads>>
           /\ obs'.setup = obs.setup
           /\ obs'.forwarded = obs.forwarded
           /\ obs'.received = obs.received
           /\ uncaughtExceptionHandler' =
                  IF g_installed THEN KSCRASH_HANDLER
                  ELSE uncaughtExceptionHandler]_vars

\* C11 witness: a call after kscrash_install, made when another component
\* was on top of the chain or after an earlier call, with a lifecycle
\* notification replayed by the installation.
C11_Witness ==
    /\ g_installed
    /\ obs.reInstalls = 2
    /\ uncaughtExceptionHandler = KSCRASH_HANDLER
    /\ obs.forwarded # <<>>

\* C12: kscrash_readReport returns NULL for every report id <= 0 without
\* reading from the store, NULL when the store's read fails (no fix-up is
\* then attempted) and NULL when the fix-up fails; it returns the fixed
\* report otherwise, and no call changes anything besides returning.
C12_ReadReport ==
    /\ [](obs.read.called =>
            LET r == obs.read
            IN  /\ r.reportID <= 0 =>
                       (r.result = NULL /\ ~r.storeRead /\ ~r.fixup)
                /\ r.reportID > 0 => r.storeRead
                /\ (r.storeRead /\ ~(r.stored /\ r.ioOK)) =>
                       (r.result = NULL /\ ~r.fixup)
                /\ (r.fixup /\ ~r.fixOK) => r.result = NULL
                /\ r.result # NULL =>
                       /\ r.result = "fixedReport"
                       /\ r.reportID > 0 /\ r.stored /\ r.ioOK /\ r.fixOK
                /\ proc = "running")
    /\ [][obs'.read.called =>
              UNCHANGED <<signalVars, proc, captureVars, controllerVars,
                          registryVars, nextReportID, storeVars,
                          uncaughtExceptionHandler, threadFrames,
                          installThreads>>]_vars

\* C12 witness: a stored report was read and its fix-up failed.
C12_Witness ==
    /\ obs.read.called
    /\ obs.read.reportID > 0
    /\ obs.read.stored /\ obs.read.ioOK /\ ~obs.read.fixOK
    /\ obs.read.fixup
    /\ obs.read.result = NULL

\* C13: the store holds an upper segment of the ids written; once more
\* reports than the bound last given to kscrash_setMaxReportCount were
\* written (through onCrash or kscrash_addUserReport), it holds exactly that
\* many, those with the highest ids; and right after every write it holds no
\* more than the bound.
C13_Eviction ==
    /\ [](LET n == nextReportID - 1
              m == obs.maxPassed
          IN  /\ reportStore \subseteq 1 .. n
              /\ \A a \in (1 .. n) \ reportStore : \A b \in reportStore : a < b
              /\ obs.writes >= m + 1 => reportStore = (n - m + 1) .. n)
    /\ [][obs'.writes = obs.writes + 1 =>
              Cardinality(reportStore') <= obs'.maxPassed]_vars

\* C13 witness: two reports more than the bound 2 were written, one of them
\* through onCrash, and the two with the highest ids remain.
C13_Witness ==
    /\ obs.maxPassed = 2
    /\ obs.writes = 4
    /\ obs.otherCaptures = 1
    /\ reportStore = {3, 4}

\* C14 (as claimed): installSignalHandler leaves alone every signal whose
\* OS handler is already handleSignal, whatever the saved previous handler,
\* so no chain-table entry ever holds handleSignal.
C14_NeverSavesOwnHandler ==
    \A i \in Indexes : g_previousSignalHandlers.h[i] # HANDLE_SIGNAL

\* C15 (as claimed): after a call of installSignalHandler that returned
\* false, by setEnabled or by emb_reInstallSignalHandlers, the OS handler of
\* every fatal signal is the one in place just before the call.
C15_FailedInstallRestores ==
    obs.failedCall.failed => osHandlers = obs.failedCall.before

\* C16 (as claimed): once handleSignal has re-raised the signal and
\* returned, the signal got the default disposition of the OS, which kills
\* the process, and handleSignal was not entered for it a second time.
C16_ReRaiseGetsDefault ==
    (obs.raised # <<>> /\ frames = <<>>) =>
        (proc = "killed" /\ obs.entries = 1)

\* Where in the calls of kscrash_install the call c is.
CallAt(c) == {i \in 1 .. Len(obs.installCalls) : obs.installCalls[i] = c}

\* kscrash_install made each call of the list once, in the list's order.
MadeInOrder(list) ==
    /\ \A i \in 1 .. Len(list) : Cardinality(CallAt(list[i])) = 1
    /\ \A i \in 1 .. Len(list) - 1 :
           \A a \in CallAt(list[i]) : \A b \in CallAt(list[i + 1]) : a < b

\* C17: kscrash_install initialises the report store, then the state
\* tracker, then registers the write callback, then activates the monitors,
\* then replays the lifecycle state, each once; no monitor is enabled
\* through the controller while no write callback is registered.
C17_InstallOrder ==
    /\ ~g_installed => obs.installCalls = <<>>
    /\ g_installed =>
           /\ Len(obs.installCalls) = Cardinality(SetupSteps)
           /\ MadeInOrder(<<"kscrs_initialize", "kscrashstate_initialize",
                            "kscm_setEventCallback", "kscrash_setMonitoring",
                            "notifyOfBeforeInstallationState">>)
    /\ (g_isEnabled \/ userMonitorEnabled) => g_onExceptionEvent = "onCrash"

\* C17 witness: an installation that enabled the signal detector and
\* replayed a lifecycle notification.
C17_Witness ==
    /\ g_installed
    /\ g_isEnabled
    /\ obs.receivedAtInstall >= 1
    /\ obs.forwarded # <<>>
    /\ obs.installCalls # <<>>

\* The callbacks made once the report id was written.
CallbacksAfter(id) ==
    IF g_reportWrittenCallback # NULL
    THEN Append(obs.callbacks, id)
    ELSE obs.callbacks

StandardReport(id) == [kind |-> "standard", path |-> PathOfReport(id)]

\* C18: for an event without the re-entrant flag onCrash allocates one new
\* report id and stores that report's path in g_lastCrashReportFilePath
\* before the write begins; while the write is going on the stored path is
\* that report's; when the write is done, one standard report was written at
\* that path and the report-written callback, if set, was called once with
\* the id.
C18_StandardWrite ==
    /\ [](\A k \in 1 .. Len(frames) :
              frames[k].pc = "writing" =>
                  /\ g_lastCrashReportFilePath = PathOfReport(frames[k].reportID)
                  /\ frames[k].reportID = nextReportID - 1
                  /\ \A w \in 1 .. Len(obs.written) :
                         obs.written[w] # StandardReport(frames[k].reportID))
    /\ [][/\ (/\ Len(obs'.events) = Len(obs.events) + 1
              /\ ~obs'.events[Len(obs'.events)].crashedDuringCrashHandling) =>
                 /\ nextReportID' = nextReportID + 1
                 /\ g_lastCrashReportFilePath' = PathOfReport(nextReportID)
                 /\ \/ /\ frames' # <<>>
                       /\ frames'[Len(frames')].pc = "writing"
                       /\ frames'[Len(frames')].reportID = nextReportID
                       /\ obs'.written = obs.written
                       /\ obs'.callbacks = obs.callbacks
                    \/ /\ obs'.written =
                              Append(obs.written, StandardReport(nextReportID))
                       /\ obs'.callbacks = CallbacksAfter(nextReportID)
          /\ (/\ Len(obs'.events) = Len(obs.events)
              /\ obs'.written # obs.written) =>
                 /\ Running("writing")
                 /\ obs'.written =
                        Append(obs.written, StandardReport(Top.reportID))
                 /\ obs'.callbacks = CallbacksAfter(Top.reportID)
                 /\ UNCHANGED <<nextReportID, g_lastCrashReportFilePath>>
         ]_vars

\* C18 witness: the standard report of a trapped signal was written and the
\* callback called with its id.
C18_Witness ==
    /\ frames # <<>>
    /\ frames[1].pc = "handled"
    /\ obs.written = <<StandardReport(frames[1].reportID)>>
    /\ obs.callbacks = <<frames[1].reportID>>
    /\ g_lastCrashReportFilePath = PathOfReport(frames[1].reportID)

\* C19: in every capture the other threads are stopped from before the
\* machine-state snapshot is taken until kscm_handleException has returned,
\* and are running again when handleSignal forwards or re-raises the signal;
\* the shared context is written and handed over only while they are
\* stopped.
C19_Suspension ==
    /\ [](/\ \A k \in 1 .. Len(frames) :
                /\ frames[k].pc \in {"fill", "dispatch", "writing", "handled"}
                       => threadsSuspended
                /\ frames[k].pc \in {"forward", "return", "chained"}
                       => ~threadsSuspended
          /\ (proc = "running" /\ frames = <<>>) => ~threadsSuspended)
    /\ [][/\ g_monitorContext' # g_monitorContext =>
                 (threadsSuspended /\ threadsSuspended')
          /\ obs'.handed # obs.handed =>
                 (threadsSuspended /\ threadsSuspended')
          /\ (obs'.raised # obs.raised \/ obs'.chained # obs.chained) =>
                 ~threadsSuspended']_vars

\* C19 witness: a capture handed its context over, resumed the threads and
\* re-raised the signal.
C19_Witness ==
    /\ Len(frames) = 1
    /\ frames[1].pc = "return"
    /\ Len(obs.handed) = 1
    /\ ~threadsSuspended

\* C20 (as claimed): whatever the interleaving of fatal signals trapped on
\* several threads and of signals nested on one thread, the capture body of
\* handleSignal is executed at most once in the process.
C20_OneCapture ==
    obs.captures <= 1

\* C21 (as claimed): when several threads call kscrash_install, whatever the
\* interleaving of their tests of g_installed and their writes to it, each
\* installation step is made by one thread only.
C21_OneInstaller ==
    \A st \in SetupSteps : obs.setup[st] <= 1

\* C22 (as claimed): whatever the interleaving of a thread inside
\* kscrash_install with another thread calling a lifecycle notification or
\* kscrash_setMonitoring, no notification is given to the state tracker and
\* no monitor is enabled through kscrash_setMonitoring before install has
\* initialised the report store and the state tracker and registered onCrash.
C22_NothingBeforeSetup ==
    /\ ~obs.earlyForward
    /\ ~obs.earlyActivation

\* C23: while handleSignal runs with the detector disabled, the latch is
\* set, no thread is suspended and the handler is nowhere in its capture
\* body; no step changes the shared context or the stack cursor, hands a
\* context to the registry, calls onCrash or writes a report; and the step
\* that takes the handler past its forwarding code calls a saved handler or
\* re-raises the signal.
C23_DisabledNoCapture ==
    /\ []((frames # <<>> /\ ~g_isEnabled) =>
            /\ g_handleSignalHasBeenCalled
            /\ ~threadsSuspended
            /\ \A k \in 1 .. Len(frames) :
                   frames[k].pc \in {"trapped", "forward", "return", "chained"})
    /\ [][(frames # <<>> /\ ~g_isEnabled) =>
            /\ UNCHANGED <<g_monitorContext, g_stackCursor, threadsSuspended,
                           g_handleSignalHasBeenCalled, nextReportID,
                           reportStore>>
            /\ obs'.captures = obs.captures
            /\ obs'.handed = obs.handed
            /\ obs'.events = obs.events
            /\ obs'.written = obs.written
            /\ (Top.pc = "forward" /\ frames' # frames) =>
                   Len(obs'.chained) + Len(obs'.raised) =
                       Len(obs.chained) + Len(obs.raised) + 1]_vars

\* C23 witness: handleSignal, entered with the detector disabled, has
\* re-raised the signal; nothing was captured.
C23_Witness ==
    /\ frames # <<>>
    /\ ~g_isEnabled
    /\ Top.pc = "return"
    /\ obs.raised # <<>>
    /\ obs.captures = 0
    /\ g_monitorContext = ZeroContext

\* C24: kscrash_setMonitoring called before install returns the empty mask
\* and changes neither a monitor nor g_monitoring, so that the install that
\* follows activates the initial mask of g_monitoring; called after install
\* it leaves the user monitor as the mask says, the signal detector enabled
\* only if the mask has it, and returns the mask of the monitors then
\* enabled.
C24_SetMonitoring ==
    /\ [](/\ g_monitoring = KSCrashMonitorTypeProductionSafeMinimal
          /\ (obs.monitoring.called /\ ~obs.monitoring.installed) =>
                 obs.monitoring.ret = KSCrashMonitorTypeNone
          /\ (obs.monitoring.called /\ obs.monitoring.installed) =>
                 /\ userMonitorEnabled = ("User" \in obs.monitoring.monitors)
                 /\ g_isEnabled => "Signal" \in obs.monitoring.monitors
                 /\ ("Signal" \in obs.monitoring.monitors
                        /\ obs.last # "enableFailed") => g_isEnabled
                 /\ obs.monitoring.ret =
                        ActiveMonitors(g_isEnabled, userMonitorEnabled))
    /\ [][/\ (~g_installed /\ ~g_installed' /\ obs'.monitoring.called) =>
                 UNCHANGED <<signalVars, proc, captureVars, controllerVars,
                             registryVars>>
          /\ (~g_installed /\ g_installed') =>
                 /\ obs'.monitoring = obs.monitoring
                 /\ userMonitorEnabled' =
                        ("User" \in KSCrashMonitorTypeProductionSafeMinimal)
                 /\ obs'.last # "enableFailed" => g_isEnabled'
                 /\ obs'.installRets =
                        <<ActiveMonitors(g_isEnabled', userMonitorEnabled')>>
         ]_vars

\* C24 witness: kscrash_setMonitoring was called with the empty mask before
\* install, and the install that followed activated both monitors.
C24_Witness ==
    /\ g_installed
    /\ obs.monitoring.called
    /\ ~obs.monitoring.installed
    /\ obs.monitoring.monitors = KSCrashMonitorTypeNone
    /\ obs.monitoring.ret = KSCrashMonitorTypeNone
    /\ obs.installRets = <<KSCrashMonitorTypeProductionSafeMinimal>>

====
